---- MODULE Spec2Model ----
(***************************************************************************)
(* EntityManager of redux-orm (src/src/EntityManager.js): one branch of an *)
(* entity tree (an id array and an id -> attributes map), a log of queued  *)
(* mutations, and reduce(), which folds the log over the branch.           *)
(***************************************************************************)
EXTENDS Integers, Sequences, FiniteSets, TLC

VARIABLES tree, mutations, pc, idx, state, ret

vars == <<tree, mutations, pc, idx, state, ret>>

(* ------------------------------ bounds --------------------------------- *)

\* ids of the branch given at construction are drawn from 1..MaxId
MaxId == 2
\* attribute values are drawn from 1..MaxVal
MaxVal == 2
\* number of mutations queued in one session
MaxLog == 2

(* --------------------------- value domains ----------------------------- *)

\* schema.idAttribute
IdAttribute == "id"

\* attribute names other than the id attribute
AttrKeys == {"a", "b"}

Vals == 1..MaxVal

\* attribute records: objects over some of the attribute names
Props == UNION {[S -> Vals] : S \in SUBSET AttrKeys}

\* Math.max() of no arguments is -Infinity, and -Infinity + 1 is -Infinity;
\* it is encoded as a number below every id of a branch.
NegInfinity == -1

\* the value of entityMap[id] for an id that is not a key
Undefined == [undefined |-> 0]

CREATE == "CREATE"
UPDATE == "UPDATE"
DELETE == "DELETE"
ORDER == "ORDER"

Range(s) == {s[k] : k \in 1..Len(s)}

NoDup(s) == \A j, k \in 1..Len(s) : j # k => s[j] # s[k]

\* sequences over S without repetition
SeqsNoDup(S) == {s \in UNION {[1..n -> S] : n \in 0..Cardinality(S)} : NoDup(s)}

\* Object.assign({}, a, b) / {...a, ...b} on objects seen as functions
Merge(a, b) == [k \in DOMAIN a \cup DOMAIN b |-> IF k \in DOMAIN b THEN b[k] ELSE a[k]]

\* Object.assign({}, entity, patch); an undefined source contributes nothing
Assign(entity, patch) == IF entity = Undefined THEN patch ELSE Merge(entity, patch)

(* ------------------------------ accessors ------------------------------ *)

getEntityTree == tree

getEntityMap == getEntityTree.map

getIdArray == getEntityTree.arr

getFullEntity(id) ==
    IF id \in DOMAIN getEntityMap
    THEN Merge((IdAttribute :> id), getEntityMap[id])
    ELSE (IdAttribute :> id)

getFullEntities == [k \in 1..Len(getIdArray) |-> getFullEntity(getIdArray[k])]

\* Math.max(...arr)
RECURSIVE MathMax(_)
MathMax(arr) ==
    IF arr = <<>> THEN NegInfinity
    ELSE LET m == MathMax(Tail(arr)) IN IF Head(arr) > m THEN Head(arr) ELSE m

\* x + 1 in floating point: -Infinity + 1 = -Infinity
PlusOne(x) == IF x = NegInfinity THEN NegInfinity ELSE x + 1

nextId == PlusOne(MathMax(getIdArray))


(* ------------------- collaborators outside this file ------------------- *)

\* utils.match: every key of the lookup is in the entity with an equal value
match(lookupObj, entity) ==
    \A k \in DOMAIN lookupObj : k \in DOMAIN entity /\ entity[k] = lookupObj[k]

\* what new Entity(manager, props) exposes: the props it was built from
Entity(props) == [kind |-> "Entity", fields |-> props]

Error(message) == [kind |-> "Error", message |-> message]

\* a QuerySet is its id sequence; the manager builds it over getIdArray
qsFilter(idArr, lookupObj) ==
    SelectSeq(idArr, LAMBDA id : match(lookupObj, getFullEntity(id)))

qsExclude(idArr, lookupObj) ==
    SelectSeq(idArr, LAMBDA id : ~match(lookupObj, getFullEntity(id)))

qsExists(idArr) == Len(idArr) > 0

qsCount(idArr) == Len(idArr)

\* index counts from 0
qsAt(idArr, index) ==
    IF index >= 0 /\ index < Len(idArr)
    THEN Entity(getFullEntity(idArr[index + 1]))
    ELSE Error("index out of range")

qsFirst(idArr) == qsAt(idArr, 0)

qsLast(idArr) == qsAt(idArr, Len(idArr) - 1)

\* QuerySet.delete(): the Delete record over the QuerySet's ids
qsDelete(idArr) == [type |-> DELETE, payload |-> [idArr |-> idArr]]

\* QuerySet.update(updater): the Update record over the QuerySet's ids
qsUpdate(idArr, updater) ==
    [type |-> UPDATE, payload |-> [idArr |-> idArr, updater |-> updater]]

(* ------------------------- delegating reads ---------------------------- *)

_getQuerySet == getIdArray

all == _getQuerySet

at(index) == qsAt(_getQuerySet, index)

first == qsFirst(_getQuerySet)

last == qsLast(_getQuerySet)

exists == qsExists(_getQuerySet)

count == qsCount(_getQuerySet)

filter(lookupObj) == qsFilter(_getQuerySet, lookupObj)

exclude(lookupObj) == qsExclude(_getQuerySet, lookupObj)

\* find as it would be if it kept the last element satisfying the predicate
RECURSIVE findLast(_, _)
findLast(entities, lookupObj) ==
    IF entities = <<>> THEN Undefined
    ELSE IF match(lookupObj, entities[Len(entities)]) THEN entities[Len(entities)]
    ELSE findLast(SubSeq(entities, 1, Len(entities) - 1), lookupObj)

\* lodash find: the first element satisfying the predicate, or Undefined
RECURSIVE find(_, _)
find(entities, lookupObj) ==
    IF entities = <<>> THEN Undefined
    ELSE IF match(lookupObj, Head(entities)) THEN Head(entities)
    ELSE find(Tail(entities), lookupObj)

\* get as it would be if a lookup holding the id attribute were matched on
\* all its keys like any other lookup
getMatchAll(lookupObj) ==
    IF ~exists THEN Error("Tried getting from empty QuerySet")
    ELSE LET found == find(getFullEntities, lookupObj)
         IN  IF found = Undefined
             THEN Error("Entity not found when calling get method")
             ELSE Entity(found)

\* get as it would be without the guard on an empty branch
getUnguarded(lookupObj) ==
    IF IdAttribute \in DOMAIN lookupObj
    THEN Entity(getFullEntity(lookupObj[IdAttribute]))
    ELSE LET found == find(getFullEntities, lookupObj)
         IN  IF found = Undefined
             THEN Error("Entity not found when calling get method")
             ELSE Entity(found)

get(lookupObj) ==
    IF ~exists THEN Error("Tried getting from empty QuerySet")
    ELSE IF IdAttribute \in DOMAIN lookupObj
    THEN Entity(getFullEntity(lookupObj[IdAttribute]))
    ELSE LET found == find(getFullEntities, lookupObj)
         IN  IF found = Undefined
             THEN Error("Entity not found when calling get method")
             ELSE Entity(found)


(* ------------------------------ sortByAll ------------------------------ *)

\* lodash baseCompareAscending on the values two entities have under a key:
\* 1, -1 or 0; a missing (undefined) value sorts after every present value
baseCompareAscending(object, other, key) ==
    LET hasV == key \in DOMAIN object
        hasO == key \in DOMAIN other
    IN  IF hasV /\ hasO
        THEN IF object[key] > other[key] THEN 1
             ELSE IF object[key] < other[key] THEN -1 ELSE 0
        ELSE IF hasO THEN 1
        ELSE IF hasV THEN -1
        ELSE 0

\* lodash compareMultiple: the first key on which the two differ decides
RECURSIVE compareMultiple(_, _, _)
compareMultiple(object, other, keys) ==
    IF keys = <<>> THEN 0
    ELSE LET c == baseCompareAscending(object, other, Head(keys))
         IN  IF c # 0 THEN c ELSE compareMultiple(object, other, Tail(keys))

\* put entity after every element of the sorted sequence that is not greater
RECURSIVE sortInsert(_, _, _)
sortInsert(sorted, entity, keys) ==
    IF sorted = <<>> THEN <<entity>>
    ELSE IF compareMultiple(entity, Head(sorted), keys) < 0
         THEN <<entity>> \o sorted
         ELSE <<Head(sorted)>> \o sortInsert(Tail(sorted), entity, keys)

\* lodash sortByAll(collection, keys): stable, ascending, keys left to right
RECURSIVE sortByAll(_, _)
sortByAll(entities, keys) ==
    IF entities = <<>> THEN <<>>
    ELSE sortInsert(sortByAll(SubSeq(entities, 1, Len(entities) - 1), keys),
                    entities[Len(entities)], keys)

(* ------------------------------ reducers ------------------------------- *)

\* updaters that are functions, by name:
\*   identity: entity => entity
\*   reset:    entity => ({})
UpdaterFns == {"identity", "reset"}

applyFn(fn, entity) == IF fn = "identity" THEN entity ELSE <<>>

\* mapper as it would be if a patch replaced the attributes it is merged into
mapperReplace(updater, entity) ==
    IF updater.kind = "function"
    THEN applyFn(updater.fn, entity)
    ELSE updater.patch

\* the mapper reduceEntityMap builds from action.payload.updater
mapper(updater, entity) ==
    IF updater.kind = "function"
    THEN applyFn(updater.fn, entity)
    ELSE Assign(entity, updater.patch)

\* entityMap[id], Undefined for an id that is not a key
Lookup(entityMap, id) == IF id \in DOMAIN entityMap THEN entityMap[id] ELSE Undefined

\* omit as it would be if it dropped the first listed key only
omitFirst(entityMap, ids) ==
    [k \in DOMAIN entityMap \ (IF ids = <<>> THEN {} ELSE {Head(ids)}) |-> entityMap[k]]

\* lodash omit(entityMap, ids)
omit(entityMap, ids) == [k \in DOMAIN entityMap \ Range(ids) |-> entityMap[k]]

reduceIdArray(idArr, action) ==
    CASE action.type = CREATE -> Append(idArr, nextId)
      [] action.type = DELETE ->
            SelectSeq(idArr, LAMBDA id : id \notin Range(action.payload.idArr))
      [] action.type = ORDER ->
            LET entities == sortByAll(getFullEntities, action.payload)
            IN  [k \in 1..Len(entities) |-> entities[k][IdAttribute]]
      [] OTHER -> idArr

\* reduceEntityMap as it would be if CREATE took its key from the keys of the
\* running map instead of nextId()
reduceEntityMapRunningKey(entityMap, action) ==
    CASE action.type = CREATE ->
            LET keys == DOMAIN entityMap
                id   == IF keys = {} THEN nextId
                        ELSE (CHOOSE m \in keys : \A k \in keys : k <= m) + 1
            IN  Merge(entityMap, (id :> action.payload))
      [] action.type = UPDATE ->
            LET updatedMap == [id \in Range(action.payload.idArr) |->
                                  mapper(action.payload.updater, Lookup(entityMap, id))]
            IN  Merge(entityMap, updatedMap)
      [] action.type = DELETE -> omit(entityMap, action.payload.idArr)
      [] OTHER -> entityMap

reduceEntityMap(entityMap, action) ==
    CASE action.type = CREATE ->
            Merge(entityMap, (nextId :> action.payload))
      [] action.type = UPDATE ->
            LET updatedMap == [id \in Range(action.payload.idArr) |->
                                  mapper(action.payload.updater, Lookup(entityMap, id))]
            IN  Merge(entityMap, updatedMap)
      [] action.type = DELETE -> omit(entityMap, action.payload.idArr)
      [] OTHER -> entityMap

\* the callback reduce() passes to Array.prototype.reduce
reduceStep(st, action) ==
    [arr |-> reduceIdArray(st.arr, action), map |-> reduceEntityMap(st.map, action)]

\* mutations.reduce(callback, tree) over a whole log
RECURSIVE reduceLog(_, _)
reduceLog(log, st) ==
    IF log = <<>> THEN st ELSE reduceLog(Tail(log), reduceStep(st, Head(log)))

(* ------------- the same methods of a manager built on t ---------------- *)

\* getFullEntity(id) of a manager whose tree is t
getFullEntityOn(t, id) ==
    LET attrs == Lookup(t.map, id)
    IN  IF attrs = Undefined THEN (IdAttribute :> id)
        ELSE Merge((IdAttribute :> id), attrs)

\* getFullEntities() of a manager whose tree is t
getFullEntitiesOn(t) == [k \in 1..Len(t.arr) |-> getFullEntityOn(t, t.arr[k])]

\* nextId() of a manager whose tree is t
nextIdOn(t) == PlusOne(MathMax(t.arr))

\* reduceIdArray of a manager whose tree is t: CREATE and ORDER read the tree
reduceIdArrayOn(t, idArr, action) ==
    CASE action.type = CREATE -> Append(idArr, nextIdOn(t))
      [] action.type = ORDER ->
            LET entities == sortByAll(getFullEntitiesOn(t), action.payload)
            IN  [k \in 1..Len(entities) |-> entities[k][IdAttribute]]
      [] OTHER -> reduceIdArray(idArr, action)

\* reduceEntityMap of a manager whose tree is t: CREATE reads the tree
reduceEntityMapOn(t, entityMap, action) ==
    CASE action.type = CREATE -> Merge(entityMap, (nextIdOn(t) :> action.payload))
      [] OTHER -> reduceEntityMap(entityMap, action)

\* the fold of log by a manager whose tree is t, from the accumulator st
RECURSIVE reduceLogOn(_, _, _)
reduceLogOn(t, log, st) ==
    IF log = <<>> THEN st
    ELSE reduceLogOn(t, Tail(log),
            [arr |-> reduceIdArrayOn(t, st.arr, Head(log)),
             map |-> reduceEntityMapOn(t, st.map, Head(log))])

\* reduce() of a manager constructed on t after log was queued on it
reduceOn(t, log) == reduceLogOn(t, log, t)

(* ------------------------------- inputs -------------------------------- *)

\* objects of at most one attribute: create payloads, patches, lookups
SmallProps == {p \in Props : Cardinality(DOMAIN p) <= 1}

\* payloads of create()
CreateProps == SmallProps

\* merge patches and function updaters given to update()
Updaters == {[kind |-> "patch", patch |-> p] : p \in SmallProps \ {<<>>}}
            \cup {[kind |-> "function", fn |-> f] : f \in UpdaterFns}

\* arguments of setOrder(): sequences of attribute names
SortKeys == SeqsNoDup(AttrKeys) \ {<<>>}

\* lookups of filter / exclude / get without the id attribute
Lookups == SmallProps

\* lookups of get with the id attribute, alone or with another key
IdLookups == {Merge((IdAttribute :> v), p) :
                 v \in 1..(MaxId + 1), p \in {<<>>, [a |-> MaxVal]}}

\* the id sequences of the QuerySets and Entities a session can write through:
\* all(), filter(l), exclude(l), and the Entity at(k)
WriteTargets ==
    {all} \cup {filter(l) : l \in Lookups} \cup {exclude(l) : l \in Lookups}
          \cup {<<getIdArray[k]>> : k \in 1..Len(getIdArray)}

\* attribute records of the entities of the branch: "a" always, "b" or not
TreeProps == {p \in Props : "a" \in DOMAIN p}

\* branches satisfying the data model: unique ids, one attribute record each
Trees == UNION {{[arr |-> arr, map |-> m] : m \in [Range(arr) -> TreeProps]} :
                   arr \in SeqsNoDup(1..MaxId)}

NoReturn == [op |-> "none"]

(* ------------------------------- actions ------------------------------- *)

Init ==
    /\ tree \in Trees
    /\ mutations = <<>>
    /\ pc = "session"
    /\ idx = 0
    /\ state = tree
    /\ ret = NoReturn

\* Push as it would be if the record went to the front of the log
PushFront(record) ==
    /\ pc = "session"
    /\ Len(mutations) < MaxLog
    /\ mutations' = <<record>> \o mutations

Push(record) ==
    /\ pc = "session"
    /\ Len(mutations) < MaxLog
    /\ mutations' = Append(mutations, record)

\* create as it would be if it applied the Create to the tree at once
createApplied(props) ==
    /\ Push([type |-> CREATE, payload |-> props])
    /\ tree' = reduceStep(tree, [type |-> CREATE, payload |-> props])
    /\ ret' = [op |-> "create", val |-> Entity(props)]
    /\ UNCHANGED <<pc, idx, state>>

create(props) ==
    /\ Push([type |-> CREATE, payload |-> props])
    /\ ret' = [op |-> "create", val |-> Entity(props)]
    /\ UNCHANGED <<tree, pc, idx, state>>

setOrder(arg) ==
    /\ Push([type |-> ORDER, payload |-> arg])
    /\ ret' = [op |-> "setOrder", arg |-> arg]
    /\ UNCHANGED <<tree, pc, idx, state>>

\* delete() of the manager, of a narrowed QuerySet or of an Entity
delete(idArr) ==
    /\ Push(qsDelete(idArr))
    /\ ret' = [op |-> "delete"]
    /\ UNCHANGED <<tree, pc, idx, state>>

\* update(updater) of the manager, of a narrowed QuerySet or of an Entity
update(idArr, updater) ==
    /\ Push(qsUpdate(idArr, updater))
    /\ ret' = [op |-> "update"]
    /\ UNCHANGED <<tree, pc, idx, state>>

\* get as it would be if a failed lookup queued the creation of the entity
GetOrCreate(lookupObj) ==
    /\ pc = "session"
    /\ ret' = [op |-> "get", arg |-> lookupObj, val |-> get(lookupObj)]
    /\ mutations' = IF get(lookupObj).kind = "Error" /\ Len(mutations) < MaxLog
                    THEN Append(mutations, [type |-> CREATE, payload |-> lookupObj])
                    ELSE mutations
    /\ UNCHANGED <<tree, pc, idx, state>>

Get(lookupObj) ==
    /\ pc = "session"
    /\ ret' = [op |-> "get", arg |-> lookupObj, val |-> get(lookupObj)]
    /\ UNCHANGED <<tree, mutations, pc, idx, state>>

\* reduce() is entered: the accumulator starts as the tree
reduceBegin ==
    /\ pc = "session"
    /\ pc' = "reduce"
    /\ idx' = 1
    /\ state' = getEntityTree
    /\ UNCHANGED <<tree, mutations, ret>>

\* one call of the fold's callback, on mutations[idx]
reduceNext ==
    /\ pc = "reduce"
    /\ idx <= Len(mutations)
    /\ state' = reduceStep(state, mutations[idx])
    /\ idx' = idx + 1
    /\ UNCHANGED <<tree, mutations, pc, ret>>

\* reduce() as it would be if returning the accumulator emptied the log
reduceReturnConsume ==
    /\ pc = "reduce"
    /\ idx > Len(mutations)
    /\ ret' = [op |-> "reduce", val |-> state]
    /\ pc' = "session"
    /\ idx' = 0
    /\ state' = tree
    /\ mutations' = <<>>
    /\ UNCHANGED tree

\* reduce() returns the accumulator
reduceReturn ==
    /\ pc = "reduce"
    /\ idx > Len(mutations)
    /\ ret' = [op |-> "reduce", val |-> state]
    /\ pc' = "session"
    /\ idx' = 0
    /\ state' = tree
    /\ UNCHANGED <<tree, mutations>>

Next ==
    \/ \E props \in CreateProps : create(props)
    \/ \E arg \in SortKeys : setOrder(arg)
    \/ \E idArr \in WriteTargets : delete(idArr)
    \/ \E idArr \in WriteTargets, updater \in Updaters : update(idArr, updater)
    \/ reduceBegin
    \/ reduceNext
    \/ reduceReturn

\* a session of queued writes and reduce()
Spec == Init /\ [][Next]_vars

\* a session of lookups, before and between queued writes
NextGet ==
    \/ \E lookupObj \in Lookups \cup IdLookups : Get(lookupObj)
    \/ \E props \in CreateProps : create(props)
    \/ \E arg \in SortKeys : setOrder(arg)
    \/ \E idArr \in WriteTargets : delete(idArr)

SpecGet == Init /\ [][NextGet]_vars


(* =========================== properties ================================ *)

\* the accumulator of the fold after its first k records
Running(k) == reduceLog(SubSeq(mutations, 1, k), getEntityTree)

\* the callback has just processed the record mutations[idx - 1]
Stepped == pc = "reduce" /\ idx > 1

LastRecord == mutations[idx - 1]

\* the accumulator that record was applied to
Before == Running(idx - 2)

\* the fold is over: state is what reduce() returns
Folded == pc = "reduce" /\ idx = Len(mutations) + 1

Occurrences(s, x) == Cardinality({k \in 1..Len(s) : s[k] = x})

IsPermutation(s, t) ==
    /\ Len(s) = Len(t)
    /\ \A x \in Range(s) \cup Range(t) : Occurrences(s, x) = Occurrences(t, x)

\* the stepwise fold and the fold over a prefix of the log agree
FoldIsRunning == pc = "reduce" => state = Running(idx - 1)

TypeOK ==
    /\ tree \in Trees
    /\ pc \in {"session", "reduce"}
    /\ idx \in 0..(MaxLog + 1)
    /\ Len(mutations) <= MaxLog
    /\ pc = "session" => idx = 0 /\ state = tree

(* ---- C1 ---- *)
\* C1: reducing a log of N >= 1 creates appends N new ids that are pairwise
\* distinct, distinct from every id of the branch, and each greater than the
\* one before (ids are allocated against the running fold state).
C1_SequentialCreates ==
    (Folded /\ Len(mutations) >= 1
        /\ \A k \in 1..Len(mutations) : mutations[k].type = CREATE)
    => LET old == getIdArray
           n == Len(mutations)
       IN  /\ Len(state.arr) = Len(old) + n
           /\ SubSeq(state.arr, 1, Len(old)) = old
           /\ \A k \in (Len(old) + 1)..Len(state.arr) : state.arr[k] \notin Range(old)
           /\ \A j, k \in (Len(old) + 1)..Len(state.arr) :
                 j < k => state.arr[j] < state.arr[k]

(* ---- C2 ---- *)
\* C2: every state of the fold (intermediate and returned) has an id sequence
\* without duplicates whose elements are exactly the keys of the map.
C2_BranchInvariant ==
    pc = "reduce" => NoDup(state.arr) /\ Range(state.arr) = DOMAIN state.map

(* ---- C3 ---- *)
\* every read of the manager, over every argument of the model
Reads ==
    [ getIdArray |-> getIdArray,
      getEntityMap |-> getEntityMap,
      getFullEntity |-> [id \in 1..(MaxId + 1) |-> getFullEntity(id)],
      getFullEntities |-> getFullEntities,
      all |-> all,
      count |-> count,
      exists |-> exists,
      first |-> first,
      last |-> last,
      at |-> [k \in 0..MaxId |-> at(k)],
      filter |-> [l \in Lookups |-> filter(l)],
      exclude |-> [l \in Lookups |-> exclude(l)],
      get |-> [l \in Lookups \cup IdLookups |-> get(l)] ]

\* C3: no step of a session (queuing a create, update, delete or setOrder, or
\* reducing) changes the result of any read: reads see the branch given at
\* construction only.
C3_ReadsSeeOriginal == [][Reads' = Reads]_vars

\* writes are queued whose reduction would change the id array and the map,
\* and the reads still show the original branch
C3_Witness ==
    /\ pc = "session"
    /\ Len(mutations) = MaxLog
    /\ mutations[1].type = CREATE
    /\ mutations[2].type = UPDATE
    /\ getIdArray # <<>>
    /\ mutations[2].payload.idArr # <<>>
    /\ Running(MaxLog).arr # getIdArray
    /\ \E id \in DOMAIN getEntityMap : Running(MaxLog).map[id] # getEntityMap[id]
    /\ ret.op = "update"

(* ---- C4 ---- *)
\* C4: create(attrs) then reduce() on an empty branch yields one finite id
\* with attrs under it; on a non-empty branch the new id is the maximum id
\* present plus one.
C4_AllocateNextId ==
    (Folded /\ Len(mutations) = 1 /\ mutations[1].type = CREATE)
    => IF getIdArray = <<>>
       THEN /\ Len(state.arr) = 1
            /\ state.arr[1] # NegInfinity
            /\ state.map = (state.arr[1] :> mutations[1].payload)
       ELSE state.arr = Append(getIdArray, MathMax(getIdArray) + 1)

(* ---- C5 ---- *)
\* the Update record restricted to the ids that are keys of the map
OnlyPresent(action, entityMap) ==
    [action EXCEPT !.payload.idArr =
        SelectSeq(action.payload.idArr, LAMBDA id : id \in DOMAIN entityMap)]

\* C5: an Update record is a no-op for each listed id that is not a key of
\* the running map: the id enters neither the map nor the id sequence, and
\* the state is as if the id had not been listed.
C5_UpdateAbsentIsNoOp ==
    (Stepped /\ LastRecord.type = UPDATE)
    => /\ \A id \in Range(LastRecord.payload.idArr) \ DOMAIN Before.map :
             id \notin DOMAIN state.map /\ id \notin Range(state.arr)
       /\ state = reduceStep(Before, OnlyPresent(LastRecord, Before.map))

(* ---- C6 ---- *)
\* C6: a Reorder record yields a permutation of the running id sequence it
\* was applied to and leaves the attributes map as it was.
C6_ReorderIsPermutation ==
    (Stepped /\ LastRecord.type = ORDER)
    => /\ IsPermutation(state.arr, Before.arr)
       /\ state.map = Before.map

(* ---- C7 ---- *)
\* id is a key of the map with an attributes record under it
Present(entityMap, id) == id \in DOMAIN entityMap /\ entityMap[id] # Undefined

\* C7: a merge-patch Update over ids that are present gives each listed id
\* the patch's keys with the patch's values and its other keys with their old
\* values, and leaves unlisted ids, the key set and the id sequence unchanged.
C7_MergePatchFrame ==
    (Stepped /\ LastRecord.type = UPDATE
        /\ LastRecord.payload.updater.kind = "patch"
        /\ \A id \in Range(LastRecord.payload.idArr) : Present(Before.map, id))
    => LET ids == Range(LastRecord.payload.idArr)
           patch == LastRecord.payload.updater.patch
       IN  /\ state.arr = Before.arr
           /\ DOMAIN state.map = DOMAIN Before.map
           /\ \A id \in DOMAIN Before.map \ ids : state.map[id] = Before.map[id]
           /\ \A id \in ids :
                 /\ DOMAIN state.map[id] = DOMAIN Before.map[id] \cup DOMAIN patch
                 /\ \A k \in DOMAIN patch : state.map[id][k] = patch[k]
                 /\ \A k \in DOMAIN Before.map[id] \ DOMAIN patch :
                       state.map[id][k] = Before.map[id][k]

\* a patch overwrote one attribute of a listed entity, kept another of its
\* attributes, and an unlisted entity is in the branch
C7_Witness ==
    /\ Stepped
    /\ LastRecord.type = UPDATE
    /\ LastRecord.payload.updater.kind = "patch"
    /\ \A id \in Range(LastRecord.payload.idArr) : Present(Before.map, id)
    /\ DOMAIN Before.map \ Range(LastRecord.payload.idArr) # {}
    /\ \E id \in Range(LastRecord.payload.idArr) :
          /\ \E k \in DOMAIN LastRecord.payload.updater.patch :
                /\ k \in DOMAIN Before.map[id]
                /\ Before.map[id][k] # LastRecord.payload.updater.patch[k]
                /\ state.map[id][k] = LastRecord.payload.updater.patch[k]
          /\ DOMAIN Before.map[id] \ DOMAIN LastRecord.payload.updater.patch # {}

(* ---- C8 ---- *)
\* C8: a Delete record removes every listed id from the id sequence and the
\* map and keeps every other id, its attributes and the relative order; so
\* all().delete() alone, reduced on a non-empty branch, leaves both empty.
C8_DeleteRemoves ==
    /\ (Stepped /\ LastRecord.type = DELETE)
       => LET ids == Range(LastRecord.payload.idArr)
          IN  /\ \A id \in ids : id \notin Range(state.arr) /\ id \notin DOMAIN state.map
              /\ DOMAIN state.map = DOMAIN Before.map \ ids
              /\ \A id \in DOMAIN state.map : state.map[id] = Before.map[id]
              /\ state.arr = SelectSeq(Before.arr, LAMBDA id : id \notin ids)
    /\ (Folded /\ getIdArray # <<>> /\ mutations = <<qsDelete(all)>>)
       => state.arr = <<>> /\ DOMAIN state.map = {}

\* a Delete removed one entity of the running state and kept another
C8_Witness ==
    /\ Stepped
    /\ LastRecord.type = DELETE
    /\ Range(LastRecord.payload.idArr) \cap Range(Before.arr) # {}
    /\ Len(state.arr) > 0
    /\ Len(state.arr) < Len(Before.arr)

(* ---- C9 ---- *)
\* C9: get(lookup) on a branch with an empty id sequence fails with the
\* empty-store error, whatever the lookup.
C9_GetOnEmpty ==
    (ret.op = "get" /\ getIdArray = <<>>)
    => ret.val = Error("Tried getting from empty QuerySet")

\* get with a lookup on the id attribute was called on an empty branch
C9_Witness ==
    /\ ret.op = "get"
    /\ getIdArray = <<>>
    /\ IdAttribute \in DOMAIN ret.arg
    /\ ret.val.kind = "Error"

(* ---- C10 ---- *)
\* positions of the id sequence whose full entity satisfies the lookup
Matching(lookupObj) ==
    {k \in 1..Len(getIdArray) : match(lookupObj, getFullEntity(getIdArray[k]))}

\* C10: on a non-empty branch, get(lookup) without the id attribute returns
\* the first full entity, in id-sequence order, that satisfies the matcher,
\* and fails with the not-found error exactly when none does.
C10_GetFirstMatch ==
    (ret.op = "get" /\ getIdArray # <<>> /\ IdAttribute \notin DOMAIN ret.arg)
    => LET hits == Matching(ret.arg)
       IN  IF hits = {}
           THEN ret.val = Error("Entity not found when calling get method")
           ELSE \E k \in hits :
                   /\ \A j \in hits : k <= j
                   /\ ret.val = Entity(getFullEntity(getIdArray[k]))

\* two entities satisfy a lookup that is not empty, and get returned the first
\* of the id sequence, which is not the one of least id
C10_Witness ==
    /\ ret.op = "get"
    /\ IdAttribute \notin DOMAIN ret.arg
    /\ DOMAIN ret.arg # {}
    /\ Cardinality(Matching(ret.arg)) >= 2
    /\ getIdArray[1] > getIdArray[2]
    /\ ret.val = Entity(getFullEntity(getIdArray[1]))

(* ---- C11 ---- *)
\* C11: on a non-empty branch, get(lookup) with a lookup holding the id
\* attribute of an entity of the branch returns that entity (its id and its
\* stored attributes), whatever the other keys of the lookup.
C11_GetByIdPriority ==
    (ret.op = "get" /\ getIdArray # <<>> /\ IdAttribute \in DOMAIN ret.arg
        /\ ret.arg[IdAttribute] \in Range(getIdArray))
    => LET id == ret.arg[IdAttribute]
       IN  /\ ret.val.kind = "Entity"
           /\ ret.val.fields[IdAttribute] = id
           /\ DOMAIN ret.val.fields = DOMAIN getEntityMap[id] \cup {IdAttribute}
           /\ \A k \in DOMAIN getEntityMap[id] : ret.val.fields[k] = getEntityMap[id][k]

\* get returned the entity of the id although its attribute differs from the
\* lookup's other key
C11_Witness ==
    /\ ret.op = "get"
    /\ IdAttribute \in DOMAIN ret.arg
    /\ ret.arg[IdAttribute] \in Range(getIdArray)
    /\ "a" \in DOMAIN ret.arg
    /\ getEntityMap[ret.arg[IdAttribute]]["a"] # ret.arg["a"]
    /\ ret.val.kind = "Entity"
    /\ ret.val.fields[IdAttribute] = ret.arg[IdAttribute]

(* ---- C12 ---- *)
\* C12: getFullEntity(id), as get reaches it with a lookup on the id, is the
\* undefined value for an id that is not in the branch, and the id merged
\* with its attributes for an id that is.
C12_FullEntityOfAbsentId ==
    (ret.op = "get" /\ getIdArray # <<>> /\ IdAttribute \in DOMAIN ret.arg)
    => LET id == ret.arg[IdAttribute]
       IN  IF id \in DOMAIN getEntityMap
           THEN getFullEntity(id) = Merge((IdAttribute :> id), getEntityMap[id])
           ELSE getFullEntity(id) = Undefined

(* ---- C13 ---- *)
\* a manager built on the tree reduces a log as the manager of the model does
ReduceOnAgrees == reduceOn(getEntityTree, mutations) = Running(Len(mutations))

\* C13: for every split of the log into a prefix and a suffix, reducing the
\* whole log in one session gives the state that reducing the prefix, and then
\* the suffix in a second session started from that result, gives.
C13_FoldSplits ==
    Folded
    => \A k \in 0..Len(mutations) :
          state = reduceOn(reduceOn(getEntityTree, SubSeq(mutations, 1, k)),
                           SubSeq(mutations, k + 1, Len(mutations)))

(* ---- C14 ---- *)
\* the first position of x in s
FirstIndex(s, x) == CHOOSE k \in 1..Len(s) : s[k] = x /\ \A j \in 1..(k - 1) : s[j] # x

\* C14: right after a Reorder record the ids of the running state stand in
\* the id sequence in ascending multi-key order of the sort keys, read from
\* the full entities of the running state (so after earlier Updates), and
\* entities equal on every sort key keep the relative order they had before
\* the record.
C14_ReorderSortsRunning ==
    (Stepped /\ LastRecord.type = ORDER)
    => \A j, k \in 1..Len(state.arr) :
          (j < k /\ {state.arr[j], state.arr[k]} \subseteq Range(Before.arr))
          => LET c == compareMultiple(getFullEntityOn(Before, state.arr[j]),
                                      getFullEntityOn(Before, state.arr[k]),
                                      LastRecord.payload)
             IN  /\ c <= 0
                 /\ c = 0 => FirstIndex(Before.arr, state.arr[j])
                                <= FirstIndex(Before.arr, state.arr[k])

\* C15: right after an Update record whose updater is a replace function,
\* every listed id of the running state holds the result of the function
\* applied to its full entity, the id merged with its attributes.
C15_ReplaceFnGetsFullEntity ==
    (/\ Stepped
     /\ LastRecord.type = UPDATE
     /\ LastRecord.payload.updater.kind = "function"
     /\ \A id \in Range(LastRecord.payload.idArr) : Present(Before.map, id))
    => \A id \in Range(LastRecord.payload.idArr) :
          state.map[id] = applyFn(LastRecord.payload.updater.fn,
                                  getFullEntityOn(Before, id))

(* ---- C16 ---- *)
\* C16: the mutation log is empty at construction and append-only: a create
\* call and a setOrder call each add one record of their type and payload at
\* the end of the log, every earlier record stays where it was, the branch
\* is not changed, and a get (the read the session calls) leaves the log as
\* it was.
C16_LogAppendOnly ==
    /\ mutations = <<>>
    /\ [][/\ tree' = tree
          /\ Len(mutations') >= Len(mutations)
          /\ SubSeq(mutations', 1, Len(mutations)) = mutations
          /\ ret'.op = "create"
             => mutations' = Append(mutations,
                                [type |-> CREATE, payload |-> ret'.val.fields])
          /\ ret'.op = "setOrder"
             => mutations' = Append(mutations,
                                [type |-> ORDER, payload |-> ret'.arg])
          /\ ret'.op = "get" => mutations' = mutations]_vars

\* a create and then a setOrder were queued, in this order, and a get was
\* called after them
C16_Witness ==
    /\ Len(mutations) = 2
    /\ mutations[1].type = CREATE
    /\ mutations[1].payload # <<>>
    /\ mutations[2].type = ORDER
    /\ ret.op = "get"

(* ---- C17 ---- *)
\* C17: no step of reduce() changes the manager's branch or its mutation
\* log, the reads of the manager give after it what they gave before it, and
\* a reduce() called right after a reduce() returns the branch state the
\* first one returned.
C17_ReducePure ==
    [][(pc = "reduce" \/ pc' = "reduce")
       => /\ tree' = tree
          /\ mutations' = mutations
          /\ getIdArray' = getIdArray
          /\ getEntityMap' = getEntityMap
          /\ getFullEntities' = getFullEntities
          /\ (pc' = "session" /\ ret.op = "reduce") => ret'.val = ret.val]_vars

\* a second reduce() has folded a log that changes the branch, and the first
\* one returned the same state
C17_Witness ==
    /\ Folded
    /\ Len(mutations) = MaxLog
    /\ ret.op = "reduce"
    /\ state = ret.val
    /\ state # tree

(* ---- C18 ---- *)
\* C18: right after a Create record the id appended to the id sequence is the
\* key added to the attributes map, the value under it is the Create's
\* attributes, and every other key keeps its value.
C18_CreateSameId ==
    (Stepped /\ LastRecord.type = CREATE)
    => LET id == state.arr[Len(state.arr)]
       IN  /\ state.arr = Append(Before.arr, id)
           /\ id \in DOMAIN state.map
           /\ state.map[id] = LastRecord.payload
           /\ DOMAIN state.map = DOMAIN Before.map \cup {id}
           /\ \A k \in DOMAIN Before.map \ {id} : state.map[k] = Before.map[k]

\* the second Create of a log on a non-empty branch has just been processed
C18_Witness ==
    /\ Stepped
    /\ idx = 3
    /\ mutations[1].type = CREATE
    /\ LastRecord.type = CREATE
    /\ LastRecord.payload # <<>>
    /\ getIdArray # <<>>
    /\ state.map[state.arr[Len(state.arr)]] = LastRecord.payload

(* ---- C19 ---- *)
\* C19: a get that fails (empty store, or no entity found) leaves the
\* mutation log and the branch as they were, so reduce() gives after it what
\* it would have given before it.
C19_FailedGetFrame ==
    [][(ret'.op = "get" /\ ret'.val.kind = "Error")
       => /\ mutations' = mutations
          /\ tree' = tree
          /\ reduceOn(tree', mutations') = reduceOn(tree, mutations)]_vars

\* a get found no entity in a non-empty store while writes were queued
C19_Witness ==
    /\ ret.op = "get"
    /\ ret.val = Error("Entity not found when calling get method")
    /\ getIdArray # <<>>
    /\ Len(mutations) >= 1
    /\ reduceOn(tree, mutations) # tree

====
